---- MODULE Spec2Model ----
(***************************************************************************)
(* fruitdata: a command-line catalogue of fruits kept in a JSON file.      *)
(*                                                                         *)
(* One invocation of the binary (main.rs, main) is one step of the model:   *)
(* load the file or fall back to the default catalogue, run exactly one    *)
(* command, save when the command mutated the catalogue.  The process then *)
(* exits (a second step) and the next invocation starts from the shell.    *)
(* The only state that survives an invocation is the file; the other       *)
(* variables record what the invocation was given and what it produced,    *)
(* and are blank between invocations.                                      *)
(*                                                                         *)
(* Representation.                                                         *)
(*   - a String is a sequence of one-character strings;                    *)
(*   - an f32 is a record [k, v]: k = "fin" with v the value in halves     *)
(*     (5.0 is 10, 2.5 is 5), or k = "inf" / "ninf" / "nan" with v = 0;    *)
(*     a volume, the product of three such values, is in eighths;          *)
(*   - a JSON value in a number position is [t, v]: t = "num" with v in    *)
(*     halves, or t = "null";                                              *)
(*   - the file is [kind, objs]: kind = "missing", "garbage" (bytes that   *)
(*     are not a JSON array of objects) or "array" with objs its objects.  *)
(***************************************************************************)
EXTENDS Integers, Sequences, FiniteSets, TLC

VARIABLES
    pc,          \* "shell": no process; "exited": an invocation has just ended
    file,        \* the catalogue file on disk
    before,      \* the file as the last invocation found it
    cmd,         \* the command of the last invocation (Commands, main.rs)
    fruits,      \* main's `fruits` when the last invocation ended
    stdout,      \* lines the last invocation printed with println!
    stderr,      \* lines the last invocation printed with eprintln!
    saveResult,  \* "none": save_catalogue not called; else how fs::write ended
    exit         \* exit code of the last invocation: 0, or 1 when main returned Err

vars == <<pc, file, before, cmd, fruits, stdout, stderr, saveResult, exit>>

(***************************************************************************)
(* Bounds                                                                  *)
(***************************************************************************)
\* the most spaces put before, and after, a name given on the command line
MaxPad == 1

(***************************************************************************)
(* Strings                                                                 *)
(***************************************************************************)
AsciiUpper == <<"A","B","C","D","E","F","G","H","I","J","K","L","M",
                "N","O","P","Q","R","S","T","U","V","W","X","Y","Z">>
AsciiLower == <<"a","b","c","d","e","f","g","h","i","j","k","l","m",
                "n","o","p","q","r","s","t","u","v","w","x","y","z">>

\* u8::to_ascii_lowercase on one character: only A..Z change
to_ascii_lowercase(c) ==
    IF \E i \in 1..Len(AsciiUpper) : AsciiUpper[i] = c
    THEN AsciiLower[CHOOSE i \in 1..Len(AsciiUpper) : AsciiUpper[i] = c]
    ELSE c

\* str::eq_ignore_ascii_case: same length and equal character by character
\* after ASCII lower-casing
eq_ignore_ascii_case(a, b) ==
    /\ Len(a) = Len(b)
    /\ \A i \in 1..Len(a) : to_ascii_lowercase(a[i]) = to_ascii_lowercase(b[i])

is_whitespace(c) == c = " "

\* str::trim: drop the leading and the trailing whitespace
trim(s) ==
    LET keep == {i \in 1..Len(s) : ~is_whitespace(s[i])}
    IN  IF keep = {} THEN <<>>
        ELSE LET lo == CHOOSE i \in keep : \A j \in keep : i <= j
                 hi == CHOOSE i \in keep : \A j \in keep : j <= i
             IN  SubSeq(s, lo, hi)

(***************************************************************************)
(* f32                                                                     *)
(***************************************************************************)
Fin(n) == [k |-> "fin", v |-> n]
Inf    == [k |-> "inf", v |-> 0]
NegInf == [k |-> "ninf", v |-> 0]
NaN    == [k |-> "nan", v |-> 0]

\* `x <= 0.0` on f32: false for NaN and for +inf
le_zero(x) == \/ x.k = "ninf"
              \/ x.k = "fin" /\ x.v <= 0

Sign(x) == CASE x.k = "inf"  -> 1
             [] x.k = "ninf" -> -1
             [] x.k = "nan"  -> 0
             [] OTHER        -> IF x.v > 0 THEN 1 ELSE IF x.v < 0 THEN -1 ELSE 0

\* FruitDimensions::volume: length * width * height in f32 (the result is
\* in eighths when finite)
volume(f) ==
    LET ds == <<f.length, f.width, f.height>>
        s  == Sign(f.length) * Sign(f.width) * Sign(f.height)
    IN  IF \A i \in 1..3 : ds[i].k = "fin"
        THEN Fin(f.length.v * f.width.v * f.height.v)
        ELSE IF (\E i \in 1..3 : ds[i].k = "nan") \/ s = 0 THEN NaN
        ELSE IF s > 0 THEN Inf ELSE NegInf

(***************************************************************************)
(* Items and the default catalogue                                         *)
(***************************************************************************)
FruitDimensions(n, l, w, h) == [name |-> n, length |-> l, width |-> w, height |-> h]

Orange == <<"O","r","a","n","g","e">>
Apple  == <<"A","p","p","l","e">>
Banana == <<"B","a","n","a","n","a">>
Pear   == <<"P","e","a","r">>

\* the default catalogue with Banana and Pear in the other order
initialise_fruit_catalogue_reordered ==
    << FruitDimensions(Orange, Fin(10), Fin(6), Fin(4)),
       FruitDimensions(Apple,  Fin(8),  Fin(5), Fin(3)),
       FruitDimensions(Pear,   Fin(12), Fin(7), Fin(5)),
       FruitDimensions(Banana, Fin(12), Fin(7), Fin(5)) >>

\* initialise_fruit_catalogue
initialise_fruit_catalogue ==
    << FruitDimensions(Orange, Fin(10), Fin(6), Fin(4)),
       FruitDimensions(Apple,  Fin(8),  Fin(5), Fin(3)),
       FruitDimensions(Banana, Fin(12), Fin(7), Fin(5)),
       FruitDimensions(Pear,   Fin(12), Fin(7), Fin(5)) >>

(***************************************************************************)
(* The catalogue file: serde_json and std::fs                              *)
(***************************************************************************)
Num(n)  == [t |-> "num", v |-> n]
Null    == [t |-> "null", v |-> 0]

Missing == [kind |-> "missing", objs |-> <<>>]
Garbage == [kind |-> "garbage", objs |-> <<>>]
Array(objs) == [kind |-> "array", objs |-> objs]

\* serde_json's serialize_f32: a finite value is written as a number, NaN and
\* the infinities are written as null
serialize_f32(x) == IF x.k = "fin" THEN Num(x.v) ELSE Null

\* #[derive(Serialize)] on FruitDimensions
serialize_fruit(f) ==
    [name |-> f.name, length |-> serialize_f32(f.length),
     width |-> serialize_f32(f.width), height |-> serialize_f32(f.height)]

\* serde_json::to_string_pretty on the slice
to_string_pretty(fs) == Array([i \in 1..Len(fs) |-> serialize_fruit(fs[i])])

\* #[derive(Deserialize)] on FruitDimensions: every dimension must be a number
fruit_shaped(o) == o.length.t = "num" /\ o.width.t = "num" /\ o.height.t = "num"

deserialize_fruit(o) ==
    FruitDimensions(o.name, Fin(o.length.v), Fin(o.width.v), Fin(o.height.v))

\* load_catalogue: Err when the file cannot be read or does not parse
load_catalogue(f) ==
    IF f.kind = "array" /\ \A i \in 1..Len(f.objs) : fruit_shaped(f.objs[i])
    THEN [ok |-> TRUE,  val |-> [i \in 1..Len(f.objs) |-> deserialize_fruit(f.objs[i])]]
    ELSE [ok |-> FALSE, val |-> <<>>]

\* The outcomes of fs::write: "ok"; "create_err", the file could not be opened
\* for writing and is left as it was; "write_err", the file was truncated and
\* the write then failed, leaving a partial document
IoOutcomes == {"ok", "create_err", "write_err"}

\* save_catalogue leaving the file as it was
save_catalogue_skipped(fs, f, io) == f

\* save_catalogue: the file after the call
save_catalogue(fs, f, io) ==
    CASE io = "ok"         -> to_string_pretty(fs)
      [] io = "create_err" -> f
      [] OTHER             -> Garbage

\* main, step 3: the catalogue the command runs against
load_or_initialise(f) ==
    IF load_catalogue(f).ok THEN load_catalogue(f).val ELSE initialise_fruit_catalogue

(***************************************************************************)
(* Output lines                                                            *)
(***************************************************************************)
Line(tag, name, nums) == [tag |-> tag, name |-> name, nums |-> nums]

LoadWarning == Line("Could not load catalogue, initialising a new one.", <<>>, <<>>)
ListHeader  == Line("--- Available Fruits ---", <<>>, <<>>)
EmptyNameMsg == Line("Name must not be empty.", <<>>, <<>>)
DimensionMsg == Line("Dimensions must be positive numbers.", <<>>, <<>>)
ExistsMsg(n)   == Line("Fruit '{}' already exists.", n, <<>>)
AddedMsg(n)    == Line("Added '{}'.", n, <<>>)
NotFoundMsg(n) == Line("Fruit '{}' not found.", n, <<>>)
RemovedMsg(n)  == Line("Removed '{}'.", n, <<>>)

\* display_fruit_info: three lines
display_fruit_info(f) ==
    << Line("Name: {}", f.name, <<>>),
       Line("Dimensions: {} x {} x {}", <<>>, <<f.length, f.width, f.height>>),
       Line("Volume: {}", <<>>, <<volume(f)>>) >>

\* the warning main prints when load_catalogue fails
warning(f) == IF load_catalogue(f).ok THEN <<>> ELSE <<LoadWarning>>

(***************************************************************************)
(* Command-line inputs                                                     *)
(***************************************************************************)
Kiwi      == <<"K","i","w","i">>
kiwiLower == <<"k","i","w","i">>
appleLower == <<"a","p","p","l","e">>

Words == {Kiwi, kiwiLower, appleLower, Banana, <<>>}

Pad(n) == [i \in 1..n |-> " "]

\* the names given to get, add and remove
NameInputs == {Pad(i) \o w \o Pad(j) : i \in 0..MaxPad, j \in 0..MaxPad, w \in Words}

\* the <length> <width> <height> given to add; clap parses each with
\* f32::from_str, which also accepts "inf", "-inf" and "NaN"
DimInputs ==
    { <<Fin(6), Fin(4), Fin(4)>>,      \* 3 2 2
      <<Fin(0), Fin(2), Fin(2)>>,      \* 0 1 1
      <<Fin(2), Fin(-2), Fin(2)>>,     \* 1 -1 1
      <<Fin(2), Fin(2), Fin(0)>>,      \* 1 1 0
      <<Fin(0), Fin(0), Fin(0)>>,      \* 0 0 0
      <<Inf, Fin(2), Fin(2)>>,         \* inf 1 1
      <<Fin(2), NegInf, Fin(2)>>,      \* 1 -inf 1
      <<NaN, Fin(2), Fin(2)>> }        \* NaN 1 1

\* enum Commands, with the arguments clap parsed
Command(op, n, l, w, h) == [op |-> op, name |-> n, length |-> l, width |-> w, height |-> h]

(***************************************************************************)
(* The files the tool may find before its first invocation                 *)
(***************************************************************************)
\* files whose names are pairwise distinct, and files that do not load
SeedFilesUnique ==
    { Missing, Garbage,
      to_string_pretty(<<>>),
      to_string_pretty(initialise_fruit_catalogue),
      to_string_pretty(<< FruitDimensions(Pear, Fin(12), Fin(7), Fin(5)),
                          FruitDimensions(Pad(1) \o Kiwi, Fin(6), Fin(4), Fin(4)) >>),
      Array(<< [name |-> Kiwi, length |-> Null, width |-> Num(2), height |-> Num(2)] >>) }

\* a file edited outside the tool so that names repeat
SeedFilesDuplicate ==
    { to_string_pretty(<< FruitDimensions(Kiwi, Fin(6), Fin(4), Fin(4)),
                          FruitDimensions(Apple, Fin(8), Fin(5), Fin(3)),
                          FruitDimensions(kiwiLower, Fin(2), Fin(2), Fin(2)) >>) }

SeedFiles == SeedFilesUnique \cup SeedFilesDuplicate

NoCommand == Command("none", <<>>, Fin(0), Fin(0), Fin(0))

\* no process is running: nothing is recorded of an invocation
Blank(f) ==
    /\ pc = "shell"
    /\ file = f
    /\ before = f
    /\ cmd = NoCommand
    /\ fruits = <<>>
    /\ stdout = <<>>
    /\ stderr = <<>>
    /\ saveResult = "none"
    /\ exit = 0

InitFrom(seeds) == \E f \in seeds : Blank(f)

Init == InitFrom(SeedFiles)

InitUnique == InitFrom(SeedFilesUnique)

(***************************************************************************)
(* The commands                                                            *)
(***************************************************************************)
\* NoSave writing the catalogue it holds to the file all the same
NoSave_persisting(out, fs) ==
    /\ fruits' = fs
    /\ stdout' = out
    /\ stderr' = warning(file)
    /\ saveResult' = "none"
    /\ exit' = 0
    /\ file' = to_string_pretty(fs)

\* an invocation that ends without calling save_catalogue
NoSave(out, fs) ==
    /\ fruits' = fs
    /\ stdout' = out
    /\ stderr' = warning(file)
    /\ saveResult' = "none"
    /\ exit' = 0
    /\ file' = file

\* SaveThenReport ignoring the Result of save_catalogue: no `?`
SaveThenReport_unchecked(fs, io, msg) ==
    /\ fruits' = fs
    /\ file' = save_catalogue(fs, file, io)
    /\ saveResult' = io
    /\ stdout' = <<msg>>
    /\ stderr' = warning(file)
    /\ exit' = 0

\* `save_catalogue(&fruits, &file_path)?` followed by the success message
SaveThenReport(fs, io, msg) ==
    /\ fruits' = fs
    /\ file' = save_catalogue(fs, file, io)
    /\ saveResult' = io
    /\ stdout' = IF io = "ok" THEN <<msg>> ELSE <<>>
    /\ stderr' = warning(file) \o (IF io = "ok" THEN <<>> ELSE <<Line("Error: {:?}", <<>>, <<>>)>>)
    /\ exit' = IF io = "ok" THEN 0 ELSE 1

\* main, steps 1 to 3: the process starts and finds the file
Start(c) ==
    /\ pc = "shell"
    /\ pc' = "exited"
    /\ before' = file
    /\ cmd' = c

\* Commands::List
List ==
    LET start == load_or_initialise(file)
    IN  /\ Start(Command("list", <<>>, Fin(0), Fin(0), Fin(0)))
        /\ cmd' = Command("list", <<>>, Fin(0), Fin(0), Fin(0))
        /\ NoSave(<<ListHeader>> \o [i \in 1..Len(start) |-> Line("{}", start[i].name, <<>>)],
                  start)

\* find returning the last match instead of the first
find_last(fs, name) ==
    LET hits == {i \in 1..Len(fs) : eq_ignore_ascii_case(fs[i].name, name)}
    IN  IF hits = {} THEN 0 ELSE CHOOSE i \in hits : \A j \in hits : j <= i

\* fruits.iter().find(|f| f.name.eq_ignore_ascii_case(name)): the index of the
\* first match, 0 for None
find(fs, name) ==
    LET hits == {i \in 1..Len(fs) : eq_ignore_ascii_case(fs[i].name, name)}
    IN  IF hits = {} THEN 0 ELSE CHOOSE i \in hits : \A j \in hits : i <= j

\* Commands::Get, what it prints: the name is compared as given
get_report(fs, name) ==
    IF find(fs, name) # 0
    THEN display_fruit_info(fs[find(fs, name)])
    ELSE <<NotFoundMsg(name)>>

\* Commands::Get
Get(name) ==
    LET start == load_or_initialise(file)
    IN  /\ Start(Command("get", name, Fin(0), Fin(0), Fin(0)))
        /\ NoSave(get_report(start, name), start)

\* any, comparing with == instead of eq_ignore_ascii_case
any_case_sensitive(fs, name) == \E i \in 1..Len(fs) : fs[i].name = name

\* fruits.iter().any(|f| f.name.eq_ignore_ascii_case(name_trimmed))
any(fs, name) == \E i \in 1..Len(fs) : eq_ignore_ascii_case(fs[i].name, name)

\* add_validate with the duplicate check moved before the dimension check
add_validate_duplicate_first(fs, name, l, w, h) ==
    IF trim(name) = <<>> THEN "empty"
    ELSE IF any(fs, trim(name)) THEN "exists"
    ELSE IF le_zero(l) \/ le_zero(w) \/ le_zero(h) THEN "dimension"
    ELSE "push"

\* add_validate checking only the length
add_validate_length_only(fs, name, l, w, h) ==
    IF trim(name) = <<>> THEN "empty"
    ELSE IF le_zero(l) THEN "dimension"
    ELSE IF any(fs, trim(name)) THEN "exists"
    ELSE "push"

\* Commands::Add, the three validations in the order of the code: the message
\* of the first that fails, or "push"
add_validate(fs, name, l, w, h) ==
    IF trim(name) = <<>> THEN "empty"
    ELSE IF le_zero(l) \/ le_zero(w) \/ le_zero(h) THEN "dimension"
    ELSE IF any(fs, trim(name)) THEN "exists"
    ELSE "push"

\* Commands::Add
Add(name, l, w, h, io) ==
    LET start   == load_or_initialise(file)
        verdict == add_validate(start, name, l, w, h)
    IN  /\ Start(Command("add", name, l, w, h))
        /\ CASE verdict = "empty"     -> io = "ok" /\ NoSave(<<EmptyNameMsg>>, start)
             [] verdict = "dimension" -> io = "ok" /\ NoSave(<<DimensionMsg>>, start)
             [] verdict = "exists"    -> io = "ok" /\ NoSave(<<ExistsMsg(trim(name))>>, start)
             [] OTHER -> SaveThenReport(Append(start, FruitDimensions(trim(name), l, w, h)),
                                        io, AddedMsg(trim(name)))

\* retain dropping only the first match
retain_drop_first(fs, name) ==
    IF find(fs, name) = 0 THEN fs
    ELSE SubSeq(fs, 1, find(fs, name) - 1) \o SubSeq(fs, find(fs, name) + 1, Len(fs))

\* Commands::Remove, the removal: every item whose name matches the trimmed
\* name up to letter case is dropped (the statement after `let before` is not
\* in main.rs as given; this is the retain its comment announces)
retain(fs, name) == SelectSeq(fs, LAMBDA f : ~eq_ignore_ascii_case(f.name, name))

\* remove_finish saving and reporting success whether or not the count changed
remove_finish_always_saves(start, name_trimmed, io) ==
    SaveThenReport(retain(start, name_trimmed), io, RemovedMsg(name_trimmed))

\* Commands::Remove after `let before = fruits.len()`: persist and report
\* success when the count changed, else report not-found
remove_finish(start, name_trimmed, io) ==
    LET kept == retain(start, name_trimmed)
    IN  IF Len(kept) # Len(start)
        THEN SaveThenReport(kept, io, RemovedMsg(name_trimmed))
        ELSE io = "ok" /\ NoSave(<<NotFoundMsg(name_trimmed)>>, kept)

\* Commands::Remove
Remove(name, io) ==
    LET start == load_or_initialise(file)
    IN  /\ Start(Command("remove", name, Fin(0), Fin(0), Fin(0)))
        /\ IF trim(name) = <<>>
           THEN io = "ok" /\ NoSave(<<EmptyNameMsg>>, start)
           ELSE remove_finish(start, trim(name), io)

\* the process is gone; only the file is left
Exit ==
    /\ pc = "exited"
    /\ pc' = "shell"
    /\ file' = file
    /\ before' = file
    /\ cmd' = NoCommand
    /\ fruits' = <<>>
    /\ stdout' = <<>>
    /\ stderr' = <<>>
    /\ saveResult' = "none"
    /\ exit' = 0

Next ==
    \/ Exit
    \/ List
    \/ \E n \in NameInputs : Get(n)
    \/ \E n \in NameInputs, d \in DimInputs, io \in IoOutcomes : Add(n, d[1], d[2], d[3], io)
    \/ \E n \in NameInputs, io \in IoOutcomes : Remove(n, io)

Spec == Init /\ [][Next]_vars

SpecUnique == InitUnique /\ [][Next]_vars

(***************************************************************************)
(* Properties                                                              *)
(***************************************************************************)
\* an invocation of `op` has just ended
Ran(op) == pc = "exited" /\ cmd.op = op

\* the catalogue the last invocation ran against
Loaded == load_or_initialise(before)

\* x > 0 for an f32 x
gt_zero(x) == x.k = "inf" \/ (x.k = "fin" /\ x.v > 0)

\* some dimension given to add is <= 0
NonPositive == le_zero(cmd.length) \/ le_zero(cmd.width) \/ le_zero(cmd.height)

\* the indices of the items of fs whose name is n up to ASCII letter case
Matches(fs, n) == {i \in 1..Len(fs) : eq_ignore_ascii_case(fs[i].name, n)}

\* C1: from a default catalogue or a file with pairwise distinct names, after
\* any sequence of list, get, add and remove no two items of the persisted
\* catalogue have names equal up to (ASCII) letter case.
C1_NamesUnique ==
    file.kind = "array" =>
        \A i, j \in 1..Len(file.objs) :
            i # j => ~eq_ignore_ascii_case(file.objs[i].name, file.objs[j].name)

\* an add of a name that differs only in case from a stored one was rejected,
\* the file holding an item the tool added earlier
C1_Witness ==
    /\ Ran("add")
    /\ stdout = <<ExistsMsg(trim(cmd.name))>>
    /\ file.kind = "array"
    /\ \E i \in 1..Len(file.objs) :
          /\ file.objs[i].name # trim(cmd.name)
          /\ eq_ignore_ascii_case(file.objs[i].name, trim(cmd.name))
          /\ eq_ignore_ascii_case(file.objs[i].name, Kiwi)

\* C2: add validates in a fixed order and reports exactly one message when it
\* rejects: the empty-name message whatever else holds; else the dimension
\* message when a dimension is <= 0, even for a duplicate name; else the
\* duplicate message when the trimmed name is in the catalogue.
C2_AddPrecedence ==
    Ran("add") =>
        /\ trim(cmd.name) = <<>> => stdout = <<EmptyNameMsg>>
        /\ trim(cmd.name) # <<>> /\ NonPositive => stdout = <<DimensionMsg>>
        /\ trim(cmd.name) # <<>> /\ ~NonPositive /\ Matches(Loaded, trim(cmd.name)) # {}
              => stdout = <<ExistsMsg(trim(cmd.name))>>

\* an add with a duplicate name and a dimension <= 0 reported the dimension
\* message
C2_Witness ==
    /\ Ran("add")
    /\ NonPositive
    /\ ~le_zero(cmd.length)
    /\ Matches(Loaded, trim(cmd.name)) # {}
    /\ stdout = <<DimensionMsg>>

\* the add was rejected by one of the three validations
AddRejected ==
    \/ trim(cmd.name) = <<>>
    \/ NonPositive
    \/ Matches(Loaded, trim(cmd.name)) # {}

\* C3: a rejected add is a no-op: the catalogue in memory is the one loaded,
\* save is not called, the file is as it was (a missing file stays missing)
\* and the exit code is 0.
C3_RejectedAddNoOp ==
    Ran("add") /\ AddRejected =>
        /\ fruits = Loaded
        /\ saveResult = "none"
        /\ file = before
        /\ exit = 0

\* an add with a width <= 0 was rejected while the file was missing
C3_Witness ==
    /\ Ran("add")
    /\ le_zero(cmd.width)
    /\ before = Missing
    /\ file = Missing
    /\ stdout = <<DimensionMsg>>

\* the add passed the three validations as the claims state them (a non-empty
\* trimmed name, every dimension > 0, no duplicate) and its save succeeded
AddSucceeded ==
    /\ Ran("add")
    /\ trim(cmd.name) # <<>>
    /\ gt_zero(cmd.length) /\ gt_zero(cmd.width) /\ gt_zero(cmd.height)
    /\ Matches(Loaded, trim(cmd.name)) = {}
    /\ saveResult = "ok"

\* the item a successful add is to append
AddedItem == FruitDimensions(trim(cmd.name), cmd.length, cmd.width, cmd.height)

\* C4: a successful add appends exactly one item, with the trimmed name and
\* the given dimensions, at the end; the items before it keep value and
\* position; and the file then holds exactly the new sequence, that is,
\* loading it gives that sequence.
C4_AddAppendsAndPersists ==
    AddSucceeded =>
        /\ fruits = Append(Loaded, AddedItem)
        /\ load_catalogue(file) = [ok |-> TRUE, val |-> Append(Loaded, AddedItem)]

\* C5: after a successful add, a get on the same file with any name equal to
\* the trimmed name up to letter case prints the added item's name, its
\* dimensions and the volume length * width * height.
C5_AddThenGet ==
    AddSucceeded =>
        \A n \in NameInputs :
            eq_ignore_ascii_case(n, trim(cmd.name)) =>
                get_report(load_or_initialise(file), n) =
                    << Line("Name: {}", trim(cmd.name), <<>>),
                       Line("Dimensions: {} x {} x {}", <<>>,
                            <<cmd.length, cmd.width, cmd.height>>),
                       Line("Volume: {}", <<>>, <<volume(AddedItem)>>) >>

\* C6: get prints an item exactly when some item of the catalogue has the
\* requested name up to letter case, and the item printed is the first such
\* item in catalogue order; otherwise it prints not-found.
C6_GetFirstMatch ==
    Ran("get") =>
        LET hits == Matches(Loaded, cmd.name)
        IN  IF hits = {}
            THEN stdout = <<NotFoundMsg(cmd.name)>>
            ELSE LET first == CHOOSE i \in hits : \A j \in hits : i <= j
                 IN  /\ stdout[1] = Line("Name: {}", Loaded[first].name, <<>>)
                     /\ stdout[2] = Line("Dimensions: {} x {} x {}", <<>>,
                                         <<Loaded[first].length, Loaded[first].width,
                                           Loaded[first].height>>)
                     /\ Len(stdout) = 3

\* a get matched two items with different dimensions and printed the first
C6_Witness ==
    /\ Ran("get")
    /\ \E i, j \in Matches(Loaded, cmd.name) :
          /\ i < j
          /\ Loaded[i].length # Loaded[j].length
          /\ stdout = display_fruit_info(Loaded[i])

\* the i-th smallest element of the set of numbers S
Nth(S, i) == CHOOSE x \in S : Cardinality({y \in S : y <= x}) = i

\* C7: remove with a non-empty trimmed name removes every item whose name
\* matches it up to letter case and no other: the catalogue afterwards is the
\* one before with exactly the matching items taken out, the others keeping
\* value and relative order.
C7_RemoveFilters ==
    Ran("remove") /\ trim(cmd.name) # <<>> =>
        LET keep == (1..Len(Loaded)) \ Matches(Loaded, trim(cmd.name))
        IN  /\ Len(fruits) = Cardinality(keep)
            /\ \A i \in 1..Len(fruits) : fruits[i] = Loaded[Nth(keep, i)]

\* a remove took out two items around one that stays
C7_Witness ==
    /\ Ran("remove")
    /\ \E i, j \in Matches(Loaded, trim(cmd.name)) :
          \E m \in 1..Len(Loaded) :
              /\ i < m /\ m < j
              /\ m \notin Matches(Loaded, trim(cmd.name))
    /\ Len(fruits) = Len(Loaded) - 2

DefaultFour ==
    << [name |-> <<"O","r","a","n","g","e">>, length |-> Fin(10), width |-> Fin(6), height |-> Fin(4)],
       [name |-> <<"A","p","p","l","e">>,     length |-> Fin(8),  width |-> Fin(5), height |-> Fin(3)],
       [name |-> <<"B","a","n","a","n","a">>, length |-> Fin(12), width |-> Fin(7), height |-> Fin(5)],
       [name |-> <<"P","e","a","r">>,         length |-> Fin(12), width |-> Fin(7), height |-> Fin(5)] >>

\* C9: a load failure (file missing, unreadable, not JSON, not of the item
\* shape) is never an error of the invocation: a warning is printed and the
\* command runs against the default catalogue, the four items Orange, Apple,
\* Banana, Pear in that order with their fixed dimensions.
C9_LoadFailureFallsBack ==
    pc = "exited" /\ ~load_catalogue(before).ok =>
        /\ Len(stderr) >= 1 /\ stderr[1] = LoadWarning
        /\ exit # 0 => saveResult \in {"create_err", "write_err"}
        /\ cmd.op = "list" =>
              stdout = <<ListHeader>> \o [i \in 1..4 |-> Line("{}", DefaultFour[i].name, <<>>)]
        /\ cmd.op \in {"list", "get"} => fruits = DefaultFour
        /\ cmd.op = "get" => stdout = get_report(DefaultFour, cmd.name)
        /\ cmd.op = "add" =>
              \/ fruits = DefaultFour /\ saveResult = "none"
              \/ Len(fruits) = 5 /\ SubSeq(fruits, 1, 4) = DefaultFour
        /\ cmd.op = "remove" =>
              /\ Len(fruits) \in {3, 4}
              /\ \A i \in 1..Len(fruits) : \E j \in 1..4 : fruits[i] = DefaultFour[j]

\* a get ran on a file that is JSON but has a null where a number belongs, and
\* printed a default item
C9_Witness ==
    /\ Ran("get")
    /\ before.kind = "array"
    /\ ~load_catalogue(before).ok
    /\ stderr = <<LoadWarning>>
    /\ Len(stdout) = 3
    /\ exit = 0

\* C10: list and get never write: the file after them is the file before
\* them, whether it loaded or not (a missing file stays missing, a corrupt
\* one corrupt; the default catalogue is not persisted).
C10_ReadOnlyCommands ==
    Ran("list") \/ Ran("get") =>
        /\ file = before
        /\ saveResult = "none"

\* a list ran on the default catalogue while the file was missing, and the
\* file is still missing
C10_Witness ==
    /\ Ran("list")
    /\ before = Missing
    /\ fruits = DefaultFour
    /\ file = Missing

\* C11: save then load is a round trip: whenever save_catalogue succeeds,
\* load_catalogue on the same path succeeds and returns the saved sequence,
\* same names and dimensions in the same order, whatever the file held before.
C11_SaveLoadRoundTrip ==
    pc = "exited" /\ saveResult = "ok" =>
        load_catalogue(file) = [ok |-> TRUE, val |-> fruits]

\* C12: a save failure is fatal: when save_catalogue fails in an add that
\* passed validation or in a remove that removed something, the exit code is
\* not 0, an error is printed and no success message is; every validation
\* rejection and every not-found outcome ends with exit code 0.
C12_SaveFailureFatal ==
    pc = "exited" =>
        /\ saveResult \in {"create_err", "write_err"} =>
              /\ cmd.op \in {"add", "remove"}
              /\ exit # 0
              /\ stdout = <<>>
              /\ Len(stderr) >= 1
              /\ stderr[Len(stderr)] = Line("Error: {:?}", <<>>, <<>>)
        /\ saveResult = "ok" =>
              /\ exit = 0
              /\ stdout \in {<<AddedMsg(trim(cmd.name))>>, <<RemovedMsg(trim(cmd.name))>>}
        /\ saveResult = "none" => exit = 0

\* an add that passed validation ended with a failed write, a non-zero exit
\* code and nothing on stdout
C12_Witness ==
    /\ Ran("add")
    /\ ~AddRejected
    /\ saveResult = "write_err"
    /\ exit # 0
    /\ stdout = <<>>

\* the dimensions 3 2 2
ThreeTwoTwo == <<Fin(6), Fin(4), Fin(4)>>

\* C13: add, get and remove agree on what the same name is: on every
\* catalogue and for every name whose trimmed form is not empty, get prints
\* an item iff add of that name with positive dimensions is rejected as a
\* duplicate, and iff remove of that name takes out at least one item.
C13_SameNameEverywhere ==
    Ran("get") /\ trim(cmd.name) # <<>> =>
        LET got     == stdout # <<NotFoundMsg(cmd.name)>>
            dup     == add_validate(Loaded, cmd.name, ThreeTwoTwo[1], ThreeTwoTwo[2],
                                    ThreeTwoTwo[3]) = "exists"
            removed == Len(retain(Loaded, trim(cmd.name))) # Len(Loaded)
        IN  (got <=> dup) /\ (got <=> removed)

\* C14: a mutation after a failed load overwrites the file with the default
\* catalogue plus the mutation: after an add that passes validation the file
\* holds exactly the four default items followed by the new item, and after
\* a remove that matches a default item it holds the default catalogue
\* without that item; nothing of the earlier content survives.
C14_MutationAfterFailedLoad ==
    pc = "exited" /\ ~load_catalogue(before).ok /\ saveResult = "ok" =>
        /\ cmd.op = "add" =>
              load_catalogue(file) = [ok |-> TRUE, val |-> Append(DefaultFour, AddedItem)]
        /\ cmd.op = "remove" =>
              load_catalogue(file) =
                  [ok |-> TRUE,
                   val |-> SelectSeq(DefaultFour,
                                     LAMBDA f : ~eq_ignore_ascii_case(f.name, trim(cmd.name)))]

====
